---- MODULE Spec2Model ----
(***************************************************************************)
(* Model of app.py: a web terminal.  A submitted command line is appended  *)
(* to the history, then either answered by a monitor alias, or by the     *)
(* internal command dispatcher run_internal_command, or handed to a       *)
(* background thread (stream_subprocess) whose output lines travel over a *)
(* queue to the consumer loop of the script.                              *)
(*                                                                         *)
(* Paths are sequences of component names below the root <<>>.  The       *)
(* filesystem fs maps every existing path to "dir" or "file"; it holds no *)
(* symbolic links, so os.path.islink is FALSE everywhere.                  *)
(***************************************************************************)
EXTENDS Integers, Sequences, FiniteSets, TLC

VARIABLES
    cwd,        \* st.session_state.cwd
    history,    \* st.session_state.history
    output,     \* st.session_state.output, as the sequence of its lines
    running,    \* st.session_state.running
    fs,         \* the filesystem
    pc,         \* position of the script run
    cmd,        \* the stripped command line of the current run
    handled,    \* first component of run_internal_command's return value
    result,     \* second component of run_internal_command's return value
    q,          \* the queue.Queue between worker and consumer
    wpc,        \* position of the worker thread
    nread,      \* number of lines the worker has read from proc.stdout
    enq,        \* every item the worker has put on q, in order
    logStart    \* length of output right after the "$ <command>" echo

vars == <<cwd, history, output, running, fs, pc, cmd, handled, result,
          q, wpc, nread, enq, logStart>>

---------------------------------------------------------------------------
(* Bounds of the model *)

MaxCmds == 2
MaxLines == 2
MaxDepth == 2

(* history[-20:] *)
HistShow == 20

---------------------------------------------------------------------------
(* Command lines, arguments and lines of text *)

Rel(comps) == [abs |-> FALSE, comps |-> comps]
Abs(comps) == [abs |-> TRUE, comps |-> comps]
NoArg == Rel(<<>>)
Tilde == Rel(<<"~">>)

C(verb, args) == [verb |-> verb, args |-> args]
NoCmd == C("", <<>>)

(* One line of text: a fixed part, and the values formatted into it. *)
Line(text, n, c, arg, items) ==
    [text |-> text, n |-> n, cmd |-> c, arg |-> arg, items |-> items]
T(text) == Line(text, 0, NoCmd, NoArg, {})
TA(text, arg) == Line(text, 0, NoCmd, arg, {})
Echo(c) == Line("$ ", 0, c, NoArg, {})

(* expanduser("~") *)
Home == <<"a">>

Internal == {"pwd", "ls", "cd", "mkdir", "rm", "cp", "mv", "clear", "help", "history"}
MonitorAliases == {C("cpu", <<>>), C("mem", <<>>), C("disk", <<>>), C("ps", <<>>)}

---------------------------------------------------------------------------
(* os.path *)

Parent(p) == IF p = <<>> THEN <<>> ELSE SubSeq(p, 1, Len(p) - 1)
IsPrefix(p, r) == Len(p) <= Len(r) /\ SubSeq(r, 1, Len(p)) = p

(* os.path.join(cwd, target): an absolute target replaces cwd. *)
join(dir, target) == IF target.abs THEN target.comps ELSE dir \o target.comps

(* os.path.abspath of an absolute path: lexical removal of "." and "..". *)
RECURSIVE normpath(_, _)
normpath(acc, rest) ==
    IF rest = <<>> THEN acc
    ELSE LET c == Head(rest) IN
         normpath(IF c = "." THEN acc
                  ELSE IF c = ".." THEN Parent(acc)
                  ELSE Append(acc, c), Tail(rest))
abspath(comps) == normpath(<<>>, comps)

(* Path resolution by the operating system: every component but the last  *)
(* is looked up in an existing directory.  path is where the walk ended.   *)
RECURSIVE Walk(_, _, _)
Walk(f, cur, rest) ==
    IF rest = <<>> THEN [err |-> "", path |-> cur]
    ELSE IF cur \notin DOMAIN f THEN [err |-> "No such file or directory", path |-> cur]
    ELSE IF f[cur] # "dir" THEN [err |-> "Not a directory", path |-> cur]
    ELSE LET c == Head(rest) IN
         Walk(f, IF c = "." THEN cur
                 ELSE IF c = ".." THEN Parent(cur)
                 ELSE Append(cur, c), Tail(rest))
Resolve(f, comps) == Walk(f, <<>>, comps)

exists(f, comps) ==
    LET r == Resolve(f, comps) IN r.err = "" /\ r.path \in DOMAIN f
isdir(f, comps) ==
    LET r == Resolve(f, comps) IN r.err = "" /\ r.path \in DOMAIN f /\ f[r.path] = "dir"
basename(comps) == IF comps = <<>> THEN "" ELSE comps[Len(comps)]
PlainName(c) == c \notin {"", ".", ".."}

Children(f, p) == {r[Len(r)] : r \in {s \in DOMAIN f : Len(s) = Len(p) + 1 /\ IsPrefix(p, s)}}
Restrict(f, S) == [p \in S |-> f[p]]
Without(f, p) == Restrict(f, {r \in DOMAIN f : ~IsPrefix(p, r)})
WithoutContents(f, p) == Restrict(f, {r \in DOMAIN f : r = p \/ ~IsPrefix(p, r)})

---------------------------------------------------------------------------
(* Return values of the built-ins.  s is the session and the filesystem    *)
(* the built-in leaves behind; exc is the message of a raised exception.   *)

Return(s, h, res) ==
    [handled |-> h, result |-> res, exc |-> "",
     cwd |-> s.cwd, fs |-> s.fs, output |-> s.output]
Raise(s, exc) == [Return(s, "Raised", <<>>) EXCEPT !.exc = exc]

(* shutil.rmtree(path): the tree goes; given a path that ends in "." or    *)
(* "..", or the root, the contents go and the final os.rmdir raises.       *)
rmtree(f, path) ==
    LET r == Resolve(f, path).path
        emptied == WithoutContents(f, r) IN
    IF PlainName(basename(path)) THEN [exc |-> "", fs |-> Without(f, r)]
    ELSE [exc |-> IF basename(path) = "." THEN "Invalid argument"
                  ELSE IF exists(emptied, path) THEN "Directory not empty"
                  ELSE "No such file or directory",
          fs |-> emptied]

(* shutil.copytree(src, dst) of a directory src: os.makedirs(dst), then the *)
(* entries of src as listed before.                                        *)
copytree(f, src, dst) ==
    LET rs == Resolve(f, src).path
        rd == Resolve(f, dst)
        sub == {p \in DOMAIN f : IsPrefix(rs, p)}
        To(p) == rd.path \o SubSeq(p, Len(rs) + 1, Len(p))
        From(n) == rs \o SubSeq(n, Len(rd.path) + 1, Len(n)) IN
    IF rd.err # "" THEN [exc |-> rd.err, fs |-> f]
    ELSE IF rd.path \in DOMAIN f THEN [exc |-> "File exists", fs |-> f]
    ELSE [exc |-> "",
          fs |-> [n \in DOMAIN f \cup {To(p) : p \in sub} |->
                     IF n \in DOMAIN f THEN f[n] ELSE f[From(n)]]]

(* shutil.copy2(src, dst) of something that is no directory. *)
copy2(f, src, dst) ==
    LET rs == Resolve(f, src)
        dst2 == IF isdir(f, dst) THEN Append(dst, basename(src)) ELSE dst
        rd == Resolve(f, dst2) IN
    IF rs.err # "" THEN [exc |-> rs.err, fs |-> f]
    ELSE IF rs.path \notin DOMAIN f THEN [exc |-> "No such file or directory", fs |-> f]
    ELSE IF rd.err # "" THEN [exc |-> rd.err, fs |-> f]
    ELSE IF rd.path = rs.path THEN [exc |-> "are the same file", fs |-> f]
    ELSE IF rd.path \in DOMAIN f /\ f[rd.path] = "dir" THEN [exc |-> "Is a directory", fs |-> f]
    ELSE [exc |-> "", fs |-> [n \in DOMAIN f \cup {rd.path} |->
                                 IF n = rd.path THEN "file" ELSE f[n]]]

(* os.rename(src, dst) *)
rename(f, src, dst) ==
    LET rs == Resolve(f, src)
        rd == Resolve(f, dst)
        sub == {p \in DOMAIN f : IsPrefix(rs.path, p)}
        To(p) == rd.path \o SubSeq(p, Len(rs.path) + 1, Len(p))
        From(n) == rs.path \o SubSeq(n, Len(rd.path) + 1, Len(n))
        rest == Without(Without(f, rs.path), rd.path) IN
    IF rs.err # "" THEN [exc |-> rs.err, fs |-> f]
    ELSE IF rs.path \notin DOMAIN f THEN [exc |-> "No such file or directory", fs |-> f]
    ELSE IF rd.err # "" THEN [exc |-> rd.err, fs |-> f]
    ELSE IF ~PlainName(basename(src)) \/ ~PlainName(basename(dst))
         THEN [exc |-> "Invalid argument", fs |-> f]
    ELSE IF rd.path = rs.path THEN [exc |-> "", fs |-> f]
    ELSE IF f[rs.path] = "dir" /\ rd.path \in DOMAIN f /\ f[rd.path] = "file"
         THEN [exc |-> "Not a directory", fs |-> f]
    ELSE IF f[rs.path] = "dir" /\ rd.path \in DOMAIN f /\ Children(f, rd.path) # {}
         THEN [exc |-> "Directory not empty", fs |-> f]
    ELSE IF f[rs.path] = "file" /\ rd.path \in DOMAIN f /\ f[rd.path] = "dir"
         THEN [exc |-> "Is a directory", fs |-> f]
    ELSE IF IsPrefix(rs.path, rd.path) THEN [exc |-> "Invalid argument", fs |-> f]
    ELSE [exc |-> "",
          fs |-> [n \in DOMAIN rest \cup {To(p) : p \in sub} |->
                     IF n \in DOMAIN rest THEN rest[n] ELSE f[From(n)]]]

(* shutil.move(src, dst) *)
move(f, src, dst) ==
    LET rs == Resolve(f, src)
        rd == Resolve(f, dst)
        samefile == exists(f, src) /\ exists(f, dst) /\ rs.path = rd.path
        real_dst == IF isdir(f, dst) THEN Append(dst, basename(src)) ELSE dst
        rn == rename(f, src, real_dst)
        destinsrc == IsPrefix(abspath(src), abspath(dst))
        ct == copytree(f, src, real_dst)
        c2 == copy2(f, src, real_dst) IN
    IF isdir(f, dst) /\ samefile THEN rename(f, src, dst)
    ELSE IF isdir(f, dst) /\ exists(f, real_dst)
         THEN [exc |-> "Destination path already exists", fs |-> f]
    ELSE IF rn.exc = "" THEN rn
    ELSE IF isdir(f, src)
         THEN IF destinsrc THEN [exc |-> "Cannot move a directory into itself", fs |-> f]
              ELSE IF ct.exc # "" THEN ct
              ELSE rmtree(ct.fs, src)
    ELSE IF c2.exc # "" THEN c2
    ELSE [exc |-> "", fs |-> Without(c2.fs, rs.path)]

---------------------------------------------------------------------------
(* run_internal_command.  parts[0] is c.verb and parts[1:] is c.args; s is *)
(* [cwd, fs, output, history].                                             *)

cmd_pwd(s, args) == Return(s, "True", <<TA("", Abs(s.cwd))>>)

cmd_ls(s, args) ==
    LET target == IF Len(args) > 0 THEN args[1] ELSE Rel(<<".">>)
        path == join(s.cwd, target)
        r == Resolve(s.fs, path) IN
    IF r.err # "" THEN Raise(s, r.err)
    ELSE IF r.path \notin DOMAIN s.fs THEN Raise(s, "No such file or directory")
    ELSE IF s.fs[r.path] # "dir" THEN Raise(s, "Not a directory")
    ELSE Return(s, "True", <<Line("", 0, NoCmd, NoArg, Children(s.fs, r.path))>>)

cd_target(s, args) ==
    abspath(IF Len(args) = 0 \/ args[1] = Tilde THEN Home ELSE join(s.cwd, args[1]))

(* A check that forgets os.path.isdir. *)
cd_missing_exists_only(s, new_dir) == ~exists(s.fs, new_dir)

cd_missing(s, new_dir) == ~exists(s.fs, new_dir) \/ ~isdir(s.fs, new_dir)

cmd_cd(s, args) ==
    LET new_dir == cd_target(s, args) IN
    IF cd_missing(s, new_dir)
    THEN IF Len(args) = 0 THEN Raise(s, "list index out of range")
         ELSE Return(s, "False", <<TA("cd: no such directory: ", args[1])>>)
    ELSE Return([s EXCEPT !.cwd = new_dir], "True",
                <<TA("Changed directory to ", Abs(new_dir))>>)

(* An os.mkdir that reports success and creates nothing. *)
mkdir_nothing(f, path) == [exc |-> "", fs |-> f]

(* os.mkdir(path) *)
mkdir(f, path) ==
    LET r == Resolve(f, path) IN
    IF r.err # "" THEN [exc |-> r.err, fs |-> f]
    ELSE IF r.path \in DOMAIN f THEN [exc |-> "File exists", fs |-> f]
    ELSE [exc |-> "", fs |-> [n \in DOMAIN f \cup {r.path} |->
                                 IF n = r.path THEN "dir" ELSE f[n]]]

RECURSIVE mkdir_loop(_, _, _)
mkdir_loop(f, dir, ds) ==
    IF ds = <<>> THEN [exc |-> "", fs |-> f]
    ELSE LET m == mkdir(f, join(dir, Head(ds))) IN
         IF m.exc # "" THEN m ELSE mkdir_loop(m.fs, dir, Tail(ds))

(* A mkdir without its operand check. *)
mkdir_usage_unchecked(args) == FALSE

mkdir_usage(args) == Len(args) + 1 < 2

cmd_mkdir(s, args) ==
    LET m == mkdir_loop(s.fs, s.cwd, args) IN
    IF mkdir_usage(args) THEN Return(s, "False", <<T("Usage: mkdir <dirname>")>>)
    ELSE IF m.exc # "" THEN Raise([s EXCEPT !.fs = m.fs], m.exc)
    ELSE Return([s EXCEPT !.fs = m.fs], "True", <<T("Directory(ies) created.")>>)

(* An rm that calls os.remove on a missing target, which raises. *)
RECURSIVE rm_loop_strict(_, _, _, _)
rm_loop_strict(f, dir, targets, msgs) ==
    IF targets = <<>> THEN [exc |-> "", fs |-> f, msgs |-> msgs]
    ELSE LET target == Head(targets)
             path == join(dir, target)
             t == rmtree(f, path) IN
         IF ~exists(f, path)
         THEN [exc |-> "No such file or directory", fs |-> f, msgs |-> msgs]
         ELSE IF isdir(f, path)
         THEN IF t.exc # "" THEN [exc |-> t.exc, fs |-> t.fs, msgs |-> msgs]
              ELSE rm_loop_strict(t.fs, dir, Tail(targets),
                                  Append(msgs, TA("Removed directory ", target)))
         ELSE rm_loop_strict(Without(f, Resolve(f, path).path), dir, Tail(targets),
                             Append(msgs, TA("Removed file ", target)))

RECURSIVE rm_loop(_, _, _, _)
rm_loop(f, dir, targets, msgs) ==
    IF targets = <<>> THEN [exc |-> "", fs |-> f, msgs |-> msgs]
    ELSE LET target == Head(targets)
             path == join(dir, target)
             t == rmtree(f, path) IN
         IF ~exists(f, path)
         THEN rm_loop(f, dir, Tail(targets),
                      Append(msgs, TA("rm: no such file or directory: ", target)))
         ELSE IF isdir(f, path)
         THEN IF t.exc # "" THEN [exc |-> t.exc, fs |-> t.fs, msgs |-> msgs]
              ELSE rm_loop(t.fs, dir, Tail(targets),
                           Append(msgs, TA("Removed directory ", target)))
         ELSE rm_loop(Without(f, Resolve(f, path).path), dir, Tail(targets),
                      Append(msgs, TA("Removed file ", target)))

rm_usage(args) == Len(args) + 1 < 2

cmd_rm(s, args) ==
    LET m == rm_loop(s.fs, s.cwd, args, <<>>) IN
    IF rm_usage(args) THEN Return(s, "False", <<T("Usage: rm <file_or_dir>")>>)
    ELSE IF m.exc # "" THEN Raise([s EXCEPT !.fs = m.fs], m.exc)
    ELSE Return([s EXCEPT !.fs = m.fs], "True", m.msgs)

cp_usage(args) == Len(args) + 1 < 3

cmd_cp(s, args) ==
    LET src == join(s.cwd, args[1])
        dst == join(s.cwd, args[2])
        m == IF isdir(s.fs, src) THEN copytree(s.fs, src, dst)
             ELSE copy2(s.fs, src, dst) IN
    IF cp_usage(args) THEN Return(s, "False", <<T("Usage: cp <source> <dest>")>>)
    ELSE IF m.exc # "" THEN Raise([s EXCEPT !.fs = m.fs], m.exc)
    ELSE Return([s EXCEPT !.fs = m.fs], "True", <<T("Copy completed.")>>)

mv_usage(args) == Len(args) + 1 < 3

cmd_mv(s, args) ==
    LET src == join(s.cwd, args[1])
        dst == join(s.cwd, args[2])
        m == move(s.fs, src, dst) IN
    IF mv_usage(args) THEN Return(s, "False", <<T("Usage: mv <source> <dest>")>>)
    ELSE IF m.exc # "" THEN Raise([s EXCEPT !.fs = m.fs], m.exc)
    ELSE Return([s EXCEPT !.fs = m.fs], "True", <<T("Move/Rename completed.")>>)

(* A clear that reports but keeps the output. *)
cmd_clear_keep(s, args) == Return(s, "True", <<T("Cleared output")>>)

cmd_clear(s, args) == Return([s EXCEPT !.output = <<>>], "True", <<T("Cleared output")>>)

cmd_help(s, args) ==
    Return(s, "True",
           <<T("Built-in commands: ls, cd, pwd, mkdir, rm, cp, mv, cpu, mem, disk, ps, history, clear, help"),
             T("You can also run shell commands.")>>)

(* history[-20:] *)
LastEntries(h) ==
    IF Len(h) <= HistShow THEN h ELSE SubSeq(h, Len(h) - HistShow + 1, Len(h))

cmd_history(s, args) ==
    LET shown == LastEntries(s.history) IN
    IF s.history = <<>> THEN Return(s, "True", <<T("No command history")>>)
    ELSE Return(s, "True",
                [i \in 1..Len(shown) |-> Line(": ", (i - 1) + 1, shown[i], NoArg, {})])

(* An else branch that reports the unknown verb as a failure. *)
not_internal_as_failure(s) == Return(s, "False", <<T("Unknown command")>>)

(* else: return None, None *)
not_internal(s) == Return(s, "None", <<>>)

(* A dispatcher without the try/except. *)
NoCatch(r) == r

(* except Exception as e: return False, f"Error: {e}" *)
CatchException(r) ==
    IF r.exc # ""
    THEN [r EXCEPT !.handled = "False", !.result = <<T("Error: " \o r.exc)>>, !.exc = ""]
    ELSE r

run_internal_command(c, s) ==
    CatchException(
        IF c.verb = "pwd" THEN cmd_pwd(s, c.args)
        ELSE IF c.verb = "ls" THEN cmd_ls(s, c.args)
        ELSE IF c.verb = "cd" THEN cmd_cd(s, c.args)
        ELSE IF c.verb = "mkdir" THEN cmd_mkdir(s, c.args)
        ELSE IF c.verb = "rm" THEN cmd_rm(s, c.args)
        ELSE IF c.verb = "cp" THEN cmd_cp(s, c.args)
        ELSE IF c.verb = "mv" THEN cmd_mv(s, c.args)
        ELSE IF c.verb = "clear" THEN cmd_clear(s, c.args)
        ELSE IF c.verb = "help" THEN cmd_help(s, c.args)
        ELSE IF c.verb = "history" THEN cmd_history(s, c.args)
        ELSE not_internal(s))

---------------------------------------------------------------------------
(* The submitted inputs.  A command line is held as its words (none is     *)
(* quoted, so shlex.split yields them as they are); pad tells whether the  *)
(* text typed has blanks around it.                                        *)

A == Rel(<<"a">>)
B == Rel(<<"b">>)
Dot == Rel(<<".">>)
Up == Rel(<<"..">>)
UpA == Rel(<<"..", "a">>)
UpB == Rel(<<"..", "b">>)
BUp == Rel(<<"b", "..">>)

Cmds ==
    { C("pwd", <<>>), C("ls", <<>>), C("ls", <<B>>),
      C("cd", <<>>), C("cd", <<Tilde>>), C("cd", <<A>>), C("cd", <<Up>>),
      C("cd", <<B>>), C("cd", <<BUp>>),
      C("mkdir", <<>>), C("mkdir", <<B>>), C("mkdir", <<B, A>>),
      C("rm", <<>>), C("rm", <<A>>), C("rm", <<B>>), C("rm", <<Dot>>),
      C("rm", <<UpA>>), C("rm", <<B, A>>),
      C("cp", <<>>), C("cp", <<A>>), C("cp", <<A, B>>), C("cp", <<B, A>>),
      C("cp", <<A, B, B>>),
      C("mv", <<>>), C("mv", <<A>>), C("mv", <<A, B>>), C("mv", <<UpA, UpB>>),
      C("mv", <<A, B, A>>),
      C("clear", <<>>), C("help", <<>>), C("history", <<>>),
      C("cpu", <<>>), C("mem", <<>>), C("disk", <<>>), C("ps", <<>>),
      C("frobnicate", <<>>) }

Inputs ==
    {[pad |-> FALSE, cmd |-> c] : c \in Cmds \cup {NoCmd}}
        \cup {[pad |-> TRUE, cmd |-> c] : c \in {NoCmd, C("pwd", <<>>)}}

(* cmd_input.strip() *)
strip(input) == input.cmd

(* shlex.split(cmd) *)
shlex_split(c) == c

Session == [cwd |-> cwd, fs |-> fs, output |-> output, history |-> history]

(* What the model leaves out: trees deeper than MaxDepth, and cp or mv     *)
(* with an operand ending in "." or "..", a destination inside the source  *)
(* or a destination whose parent is missing.                               *)
InModel(c, s) ==
    LET r == run_internal_command(c, s)
        src == join(s.cwd, c.args[1])
        dst == join(s.cwd, c.args[2]) IN
    /\ \A p \in DOMAIN r.fs : Len(p) <= MaxDepth
    /\ (c.verb \in {"cp", "mv"} /\ Len(c.args) >= 2) =>
          /\ PlainName(basename(src)) /\ PlainName(basename(dst))
          /\ ~(abspath(src) # abspath(dst) /\ IsPrefix(abspath(src), abspath(dst)))
          /\ Resolve(s.fs, dst).err = ""

(* def append_output(text): text is a sequence of lines *)
append_output(out, text) == out \o text

---------------------------------------------------------------------------
(* The queue and the worker thread *)

None == [none |-> TRUE, val |-> T("")]
Item(l) == [none |-> FALSE, val |-> l]

(* The k-th line the subprocess prints: text lines and blank lines. *)
stdout_line(k) == IF k % 2 = 1 THEN "x\n" ELSE "\n"
ExitCodes == {0, 1}

(* line.rstrip("\n") *)
rstrip(raw) == IF raw = "x\n" THEN "x" ELSE IF raw = "\n" THEN "" ELSE raw

(* thread.is_alive() *)
is_alive == wpc \notin {"none", "dead"}

InitFs == [p \in {<<>>, <<"a">>, <<"a", "a">>, <<"b">>} |->
              IF p = <<"b">> THEN "file" ELSE "dir"]
InitCwds == {<<>>, <<"a">>}

Init ==
    /\ fs = InitFs
    /\ cwd \in InitCwds
    /\ history = <<>>
    /\ output = <<>>
    /\ running = FALSE
    /\ pc = "idle"
    /\ cmd = NoCmd
    /\ handled = "None"
    /\ result = <<>>
    /\ q = <<>>
    /\ wpc = "none"
    /\ nread = 0
    /\ enq = <<>>
    /\ logStart = 0

---------------------------------------------------------------------------
(* The script run: handle input *)

WorkerVars == <<q, wpc, nread, enq, logStart>>

(* if run_button and cmd_input.strip() *)
accepted(input) == strip(input) # NoCmd

(* A script that records nothing in history. *)
history_append_skip(h, c) == h

(* A history that skips a command equal to the one before it. *)
history_append_nodup(h, c) ==
    IF h # <<>> /\ h[Len(h)] = c THEN h ELSE Append(h, c)

(* st.session_state.history.append(cmd) *)
history_append(h, c) == Append(h, c)

(* The script reaches its input handling only when                         *)
(* psutil.disk_usage(st.session_state.cwd) of the monitor column succeeds. *)
MonitorRenders == exists(fs, cwd)

SubmitWithin(input, limit) ==
    /\ pc = "idle"
    /\ MonitorRenders
    /\ accepted(input)
    /\ Len(history) < limit
    /\ InModel(shlex_split(strip(input)), Session)
    /\ cmd' = strip(input)
    /\ history' = history_append(history, strip(input))
    /\ pc' = "dispatching"
    /\ UNCHANGED <<cwd, output, running, fs, handled, result>>
    /\ UNCHANGED WorkerVars

Submit(input) == SubmitWithin(input, MaxCmds)

(* The text of a monitor alias; the figures come from psutil. *)
monitor_text(c) ==
    IF c.verb = "cpu" THEN <<T("CPU: %")>>
    ELSE IF c.verb = "mem" THEN <<T("Memory: % (MB used of MB)")>>
    ELSE IF c.verb = "disk" THEN <<TA("Disk: % (GB used of GB)", Abs(cwd))>>
    ELSE <<T("pid name username cpu_percent")>>

MonitorAlias ==
    /\ pc = "dispatching"
    /\ cmd \in MonitorAliases
    /\ output' = append_output(output, monitor_text(cmd))
    /\ pc' = "idle"
    /\ UNCHANGED <<cwd, history, running, fs, cmd, handled, result>>
    /\ UNCHANGED WorkerVars

Dispatch ==
    /\ pc = "dispatching"
    /\ cmd \notin MonitorAliases
    /\ LET r == run_internal_command(shlex_split(cmd), Session) IN
          /\ handled' = r.handled
          /\ result' = r.result
          /\ cwd' = r.cwd
          /\ fs' = r.fs
          /\ output' = r.output
    /\ pc' = "outcome"
    /\ UNCHANGED <<history, running, cmd>>
    /\ UNCHANGED WorkerVars

HandledTrue ==
    /\ pc = "outcome"
    /\ handled = "True"
    /\ output' = append_output(append_output(output, <<Echo(cmd)>>), result)
    /\ pc' = "idle"
    /\ UNCHANGED <<cwd, history, running, fs, cmd, handled, result>>
    /\ UNCHANGED WorkerVars

HandledFalse ==
    /\ pc = "outcome"
    /\ handled = "False"
    /\ output' = append_output(append_output(output, <<Echo(cmd)>>), result)
    /\ pc' = "idle"
    /\ UNCHANGED <<cwd, history, running, fs, cmd, handled, result>>
    /\ UNCHANGED WorkerVars

(* q = queue.Queue(); thread.start() *)
StartStreaming ==
    /\ pc = "outcome"
    /\ handled = "None"
    /\ output' = append_output(output, <<Echo(cmd)>>)
    /\ logStart' = Len(output) + 1
    /\ running' = TRUE
    /\ q' = <<>>
    /\ enq' = <<>>
    /\ nread' = 0
    /\ wpc' = "spawn"
    /\ pc' = "get"
    /\ UNCHANGED <<cwd, history, fs, cmd, handled, result>>

---------------------------------------------------------------------------
(* stream_subprocess, run by the worker thread *)

ScriptVars == <<cwd, history, output, running, fs, pc, cmd, handled, result, logStart>>

(* q.put(item) on the unbounded queue *)
put(queue, item) == Append(queue, item)

(* subprocess.Popen(...) stands before the try: when it raises (the        *)
(* directory cwd is gone or may not be entered, no process can be forked)  *)
(* the thread ends there.                                                  *)
WorkerSpawn ==
    /\ wpc = "spawn"
    /\ \E ok \in {b \in BOOLEAN : b => isdir(fs, cwd)} :
          wpc' = IF ok THEN "read" ELSE "dead"
    /\ UNCHANGED <<q, nread, enq>>
    /\ UNCHANGED ScriptVars

(* for line in proc.stdout: q.put(line.rstrip("\n")) *)
WorkerLine ==
    /\ wpc = "read"
    /\ nread < MaxLines
    /\ nread' = nread + 1
    /\ q' = put(q, Item(T(rstrip(stdout_line(nread + 1)))))
    /\ enq' = Append(enq, Item(T(rstrip(stdout_line(nread + 1)))))
    /\ UNCHANGED wpc
    /\ UNCHANGED ScriptVars

exit_line(code) ==
    IF code = 0 THEN T("--- process exited with code 0 ---")
    ELSE T("--- process exited with code 1 ---")

(* proc.wait(); q.put(f"--- process exited with code ... ---") *)
WorkerWait(code) ==
    /\ wpc = "read"
    /\ q' = put(q, Item(exit_line(code)))
    /\ enq' = Append(enq, Item(exit_line(code)))
    /\ wpc' = "finally"
    /\ UNCHANGED nread
    /\ UNCHANGED ScriptVars

(* except Exception as e: q.put(f"Error running process: {e}") *)
WorkerReadError ==
    /\ wpc = "read"
    /\ q' = put(q, Item(T("Error running process: ")))
    /\ enq' = Append(enq, Item(T("Error running process: ")))
    /\ wpc' = "finally"
    /\ UNCHANGED nread
    /\ UNCHANGED ScriptVars

(* finally: q.put(None) *)
WorkerSentinel ==
    /\ wpc = "finally"
    /\ q' = put(q, None)
    /\ enq' = Append(enq, None)
    /\ wpc' = "return"
    /\ UNCHANGED nread
    /\ UNCHANGED ScriptVars

(* The thread's function returns and the thread is no longer alive. *)
WorkerReturn ==
    /\ wpc = "return"
    /\ wpc' = "dead"
    /\ UNCHANGED <<q, nread, enq>>
    /\ UNCHANGED ScriptVars

---------------------------------------------------------------------------
(* The consumer loop of the script *)

(* A get that takes the newest item. *)
get_newest(queue) == queue[Len(queue)]

(* q.get(timeout=0.1) takes the oldest item *)
get(queue) == Head(queue)
after_get(queue) == Tail(queue)

ConsumerGet ==
    /\ pc = "get"
    /\ q # <<>>
    /\ q' = after_get(q)
    /\ IF get(q).none
       THEN pc' = "check" /\ UNCHANGED output
       ELSE pc' = "get" /\ output' = append_output(output, <<get(q).val>>)
    /\ UNCHANGED <<cwd, history, running, fs, cmd, handled, result>>
    /\ UNCHANGED <<wpc, nread, enq, logStart>>

(* except queue.Empty: line = None *)
ConsumerTimeout ==
    /\ pc = "get"
    /\ q = <<>>
    /\ pc' = "check"
    /\ UNCHANGED <<cwd, history, output, running, fs, cmd, handled, result>>
    /\ UNCHANGED WorkerVars

(* A loop that leaves once the worker has put its None. *)
loop_exit_on_sentinel == enq # <<>> /\ enq[Len(enq)].none

(* A loop that never leaves. *)
loop_exit_never == FALSE

(* A loop that leaves on the first None, whatever the thread does. *)
loop_exit_on_none == TRUE

(* if not thread.is_alive(): break *)
loop_exit == ~is_alive

(* break; st.session_state.running = False; st.rerun(), which ends the    *)
(* script run and drops its queue -- or sleep and continue                 *)
ConsumerCheck ==
    /\ pc = "check"
    /\ IF loop_exit
       THEN /\ pc' = "idle"
            /\ running' = FALSE
            /\ q' = <<>>
            /\ enq' = <<>>
            /\ nread' = 0
            /\ logStart' = 0
       ELSE /\ pc' = "get"
            /\ UNCHANGED <<running, q, enq, nread, logStart>>
    /\ UNCHANGED <<cwd, history, output, fs, cmd, handled, result, wpc>>

---------------------------------------------------------------------------

Next ==
    \/ \E input \in Inputs : Submit(input)
    \/ MonitorAlias
    \/ Dispatch
    \/ HandledTrue
    \/ HandledFalse
    \/ StartStreaming
    \/ WorkerSpawn
    \/ WorkerLine
    \/ \E code \in ExitCodes : WorkerWait(code)
    \/ WorkerReadError
    \/ WorkerSentinel
    \/ WorkerReturn
    \/ ConsumerGet
    \/ ConsumerTimeout
    \/ ConsumerCheck

Spec == Init /\ [][Next]_vars

---------------------------------------------------------------------------
(* A session that has already answered n times pwd: the history built-in   *)
(* cuts its list at HistShow entries.                                      *)

Pwd == C("pwd", <<>>)
PwdHistory(n) == [i \in 1..n |-> Pwd]
PwdOutput(n, dir) ==
    [i \in 1..(2 * n) |-> IF i % 2 = 1 THEN Echo(Pwd) ELSE TA("", Abs(dir))]

InitAfterPwd ==
    /\ fs = InitFs
    /\ cwd \in InitCwds
    /\ \E n \in (HistShow - 1)..(HistShow + 1) :
          /\ history = PwdHistory(n)
          /\ output = PwdOutput(n, cwd)
    /\ running = FALSE
    /\ pc = "idle"
    /\ cmd = NoCmd
    /\ handled = "None"
    /\ result = <<>>
    /\ q = <<>>
    /\ wpc = "none"
    /\ nread = 0
    /\ enq = <<>>
    /\ logStart = 0

HistoryInputs == {[pad |-> FALSE, cmd |-> c] : c \in {Pwd, C("history", <<>>)}}

NextHistory ==
    \/ \E input \in HistoryInputs : SubmitWithin(input, HistShow + 1 + MaxCmds)
    \/ Dispatch
    \/ HandledTrue

SpecHistory == InitAfterPwd /\ [][NextHistory]_vars

---------------------------------------------------------------------------
(* Sessions of external commands only, with the scheduling of the threads: *)
(* the script's loop always goes on (its get times out, its sleep ends),   *)
(* and a worker that has left its read loop puts None and returns.  The    *)
(* subprocess itself may print or stay silent for ever.                    *)

StreamInputs == {[pad |-> FALSE, cmd |-> C("frobnicate", <<>>)]}

Consumer == ConsumerGet \/ ConsumerTimeout \/ ConsumerCheck

NextStream ==
    \/ \E input \in StreamInputs : Submit(input)
    \/ Dispatch
    \/ StartStreaming
    \/ WorkerSpawn
    \/ WorkerLine
    \/ \E code \in ExitCodes : WorkerWait(code)
    \/ WorkerReadError
    \/ WorkerSentinel
    \/ WorkerReturn
    \/ ConsumerGet
    \/ ConsumerTimeout
    \/ ConsumerCheck

SpecStream ==
    /\ Init
    /\ [][NextStream]_vars
    /\ WF_vars(Consumer)
    /\ WF_vars(WorkerSpawn)
    /\ WF_vars(WorkerSentinel)
    /\ WF_vars(WorkerReturn)

---------------------------------------------------------------------------
(* Properties *)

Streaming == pc \in {"get", "check"}

(* The lines of output that follow the echo of the streamed command. *)
Streamed == SubSeq(output, logStart + 1, Len(output))

(* The lines the worker has enqueued so far. *)
EnqLines ==
    LET items == SelectSeq(enq, LAMBDA it : ~it.none) IN
    [i \in 1..Len(items) |-> items[i].val]

Sentinels == {i \in 1..Len(enq) : enq[i].none}

Normalized(p) == \A i \in 1..Len(p) : PlainName(p[i])

(* C1: while a command is streamed, the lines appended to the output after *)
(* its echo are a prefix of the lines the worker has enqueued so far, in   *)
(* the same order and without duplication.                                 *)
C1_StreamedIsPrefix ==
    Streaming =>
        /\ Len(Streamed) <= Len(EnqLines)
        /\ \A i \in 1..Len(Streamed) : Streamed[i] = EnqLines[i]

(* A line is in the output while the process is still being read. *)
C1_Witness ==
    /\ Streaming
    /\ wpc = "read"
    /\ Len(Streamed) = 2
    /\ Streamed[1] # Streamed[2]

(* C2: when the consumer loop is about to exit, no line is left unconsumed *)
(* in the queue.                                                           *)
C2_NoEventLost ==
    (pc = "check" /\ loop_exit) => \A i \in 1..Len(q) : q[i].none

(* C3: a worker that has ended has enqueued exactly one None, as its last  *)
(* item.                                                                   *)
C3_ExactlyOneDone ==
    (Streaming /\ wpc = "dead") =>
        /\ Cardinality(Sentinels) = 1
        /\ enq[Len(enq)].none

(* C4: a step that accepts a submission appends the submitted command to   *)
(* history, before it is dispatched; no other step changes history.        *)
C4_HistoryAppendOnly ==
    [][IF pc = "idle" /\ pc' # "idle"
       THEN /\ pc' = "dispatching"
            /\ cmd' \in Cmds
            /\ history' = Append(history, cmd')
       ELSE history' = history]_vars

(* Two submissions, an unknown command and a built-in that fails. *)
C4_Witness ==
    /\ pc = "outcome"
    /\ handled = "False"
    /\ Len(history) = 2
    /\ history[1].verb \in {"frobnicate", "cpu"}
    /\ history[2] = cmd

(* C5: cwd is always an existing directory, held as a normalized absolute  *)
(* path.                                                                   *)
C5_CwdExists == Normalized(cwd) /\ cwd \in DOMAIN fs /\ fs[cwd] = "dir"

(* C6: cd to a target that is missing or no directory fails and leaves cwd *)
(* alone; cd to an existing directory succeeds and sets cwd to its         *)
(* normalized absolute path.                                               *)
C6_CdContract ==
    [][(pc = "dispatching" /\ pc' = "outcome" /\ cmd.verb = "cd") =>
          LET target == IF cmd.args = <<>> \/ cmd.args[1] = Tilde THEN Home
                        ELSE abspath(join(cwd, cmd.args[1])) IN
          IF target \in DOMAIN fs /\ fs[target] = "dir"
          THEN handled' = "True" /\ cwd' = target /\ Normalized(cwd')
          ELSE handled' = "False" /\ cwd' = cwd]_vars

(* A cd that succeeded, then a cd to something that is no directory. *)
C6_Witness ==
    /\ pc = "outcome"
    /\ Len(history) = 2
    /\ history[1] = C("cd", <<Up>>)
    /\ cwd = <<>>
    /\ cmd = C("cd", <<B>>)
    /\ handled = "False"

(* C7: when the script is idle, running is false and no worker thread is   *)
(* alive; running is true only while a command is streamed.                *)
C7_RunningOnlyWhileStreaming ==
    /\ pc = "idle" => (~running /\ ~is_alive)
    /\ running => Streaming

(* Back to idle after a streamed command. *)
C7_Witness ==
    /\ pc = "idle"
    /\ wpc = "dead"
    /\ ~running
    /\ Len(history) = 1
    /\ Len(output) > 1

(* C8: the dispatcher answers None for a verb that is no built-in and      *)
(* leaves cwd, history, output, running and the filesystem as they were.   *)
C8_UnknownVerbNotHandled ==
    [][(pc = "dispatching" /\ pc' = "outcome" /\ cmd.verb \notin Internal) =>
          /\ handled' = "None"
          /\ UNCHANGED <<cwd, history, output, running, fs>>]_vars

C8_Witness ==
    /\ pc = "outcome"
    /\ cmd.verb = "frobnicate"
    /\ handled = "None"
    /\ history = <<cmd>>

(* C9: the dispatcher answers True or False for a built-in, never None and *)
(* never an exception, and no built-in is ever streamed.                   *)
C9_BuiltinAlwaysHandled ==
    /\ (pc = "outcome" /\ cmd.verb \in Internal) => handled \in {"True", "False"}
    /\ (Streaming \/ running) => cmd.verb \notin Internal

(* ls of a file: the error raised by os.listdir has become the result. *)
C9_Witness ==
    /\ pc = "outcome"
    /\ cmd = C("ls", <<B>>)
    /\ handled = "False"
    /\ result = <<T("Error: Not a directory")>>

MissingOperand(c) ==
    \/ c.verb \in {"mkdir", "rm"} /\ Len(c.args) = 0
    \/ c.verb \in {"cp", "mv"} /\ Len(c.args) < 2

Usage == {<<T("Usage: mkdir <dirname>")>>, <<T("Usage: rm <file_or_dir>")>>,
          <<T("Usage: cp <source> <dest>")>>, <<T("Usage: mv <source> <dest>")>>}

(* C10: mkdir, rm, cp and mv without their operands answer False with a   *)
(* usage message; nothing changes but the output, which gains the echo and *)
(* the message.                                                            *)
C10_MissingOperandUsage ==
    [][(pc \in {"dispatching", "outcome"} /\ MissingOperand(cmd)) =>
          /\ UNCHANGED <<cwd, history, fs>>
          /\ IF pc = "dispatching"
             THEN handled' = "False" /\ result' \in Usage /\ output' = output
             ELSE output' = output \o <<Echo(cmd)>> \o result]_vars

C10_Witness ==
    /\ pc = "outcome"
    /\ cmd = C("cp", <<A>>)
    /\ handled = "False"
    /\ result = <<T("Usage: cp <source> <dest>")>>

(* C11: rm of targets none of which ends in "." or ".." answers True with  *)
(* one message per target, in order; a target that is missing gets the     *)
(* "no such file or directory" message, and afterwards no target exists.   *)
C11_RmMissingTargets ==
    [][(pc = "dispatching" /\ pc' = "outcome" /\ cmd.verb = "rm"
            /\ Len(cmd.args) > 0
            /\ \A i \in 1..Len(cmd.args) : PlainName(basename(cmd.args[i].comps))) =>
          /\ handled' = "True"
          /\ Len(result') = Len(cmd.args)
          /\ \A i \in 1..Len(cmd.args) :
                /\ result'[i].arg = cmd.args[i]
                /\ result'[i].text \in {"rm: no such file or directory: ",
                                        "Removed directory ", "Removed file "}
                /\ ~exists(fs, join(cwd, cmd.args[i])) =>
                       result'[i].text = "rm: no such file or directory: "
                /\ ~exists(fs', join(cwd, cmd.args[i]))]_vars

(* rm b a where b is missing and a is a directory: a is removed all the    *)
(* same.                                                                   *)
C11_Witness ==
    /\ pc = "outcome"
    /\ cmd = C("rm", <<B, A>>)
    /\ handled = "True"
    /\ result = <<TA("rm: no such file or directory: ", B), TA("Removed directory ", A)>>
    /\ <<"a", "a">> \notin DOMAIN fs

(* C12: with N entries in history, the history built-in answers the last   *)
(* min(N, HistShow) entries in order, numbered by their positions in the   *)
(* whole history, from max(1, N - (HistShow - 1)) on.                      *)
C12_HistoryNumbering ==
    (pc = "outcome" /\ cmd.verb = "history") =>
        LET N == Len(history)
            k == IF N < HistShow THEN N ELSE HistShow
            first == IF N - (HistShow - 1) > 1 THEN N - (HistShow - 1) ELSE 1 IN
        /\ Len(result) = k
        /\ \A i \in 1..k :
              /\ result[i].cmd = history[first + i - 1]
              /\ result[i].n = first + i - 1

(* The session a built-in leaves behind. *)
After(r) == [cwd |-> r.cwd, fs |-> r.fs, output |-> r.output, history |-> history]

Listed(r) == r.result[1].items

(* C13: where cwd exists and has no entry foo, mkdir foo succeeds and ls    *)
(* then lists foo next to the entries there were; rm foo then succeeds and  *)
(* ls lists the entries there were, with the filesystem as it was.         *)
C13_MkdirLsRmRoundTrip ==
    (pc = "idle" /\ isdir(fs, cwd)) =>
        \A foo \in {A, B} :
            ~exists(fs, join(cwd, foo)) =>
                LET made == run_internal_command(C("mkdir", <<foo>>), Session)
                    ls1 == run_internal_command(C("ls", <<>>), After(made))
                    removed == run_internal_command(C("rm", <<foo>>), After(made))
                    ls2 == run_internal_command(C("ls", <<>>), After(removed)) IN
                /\ made.handled = "True"
                /\ ls1.handled = "True"
                /\ Listed(ls1) = Children(fs, cwd) \cup {foo.comps[1]}
                /\ foo.comps[1] \notin Children(fs, cwd)
                /\ removed.handled = "True"
                /\ ls2.handled = "True"
                /\ Listed(ls2) = Children(fs, cwd)
                /\ removed.fs = fs

(* mkdir b, then ls, submitted one after the other: ls lists b. *)
C13_Witness ==
    /\ pc = "outcome"
    /\ history = <<C("mkdir", <<B>>), C("ls", <<>>)>>
    /\ handled = "True"
    /\ "b" \in result[1].items
    /\ "a" \in result[1].items

ExitLines == {exit_line(code) : code \in ExitCodes}
Failures == {i \in 1..Len(enq) : ~enq[i].none /\ enq[i].val = T("Error running process: ")}

(* C14: a worker that has ended without reporting an exit status (the     *)
(* spawn failed, or the read failed) has enqueued exactly one line that    *)
(* tells the failure, and right after it the None sentinel.                *)
C14_FailureReported ==
    (Streaming /\ wpc = "dead" /\ \A i \in 1..Len(enq) : enq[i].val \notin ExitLines) =>
        /\ Len(enq) >= 2
        /\ enq[Len(enq)].none
        /\ Failures = {Len(enq) - 1}

(* C15: once the worker of a streamed command has left its read loop or    *)
(* ended, the consumer loop eventually exits: the script is idle again,    *)
(* with running false.                                                     *)
C15_LoopExits ==
    (Streaming /\ wpc \in {"finally", "return", "dead"}) ~> (pc = "idle" /\ ~running)

(* None has been consumed while the worker thread is still alive. *)
C15_Witness ==
    /\ pc = "check"
    /\ wpc = "return"
    /\ q = <<>>
    /\ enq # <<>>
    /\ enq[Len(enq)].none

(* C16: a worker thread is alive only while the script is in the consumer  *)
(* loop of the command that started it, with running true; the script      *)
(* starts a worker only from outside that loop, so it never starts one     *)
(* while another is alive.                                                 *)
C16_OneWorkerAtATime ==
    is_alive => (Streaming /\ running /\ handled = "None")

(* The worker of a second streamed command reads its process. *)
C16_Witness ==
    /\ pc = "get"
    /\ wpc = "read"
    /\ history = <<C("frobnicate", <<>>), C("frobnicate", <<>>)>>

(* C17: cp and mv with any number of operands other than two answer False  *)
(* with their usage message and leave the filesystem as it was.            *)
C17_ExactlyTwoOperands ==
    [][(pc = "dispatching" /\ cmd.verb \in {"cp", "mv"} /\ Len(cmd.args) # 2) =>
          /\ handled' = "False"
          /\ result' \in Usage
          /\ fs' = fs]_vars

(* C18: a monitor alias is answered without the dispatcher and without a   *)
(* worker: output gains the echo "$ <command>" and then the formatted      *)
(* block, the command is the last entry of history, cwd, running and the   *)
(* filesystem stay, and the script is idle again.                          *)
C18_AliasLikeHandled ==
    [][(pc = "dispatching" /\ cmd \in MonitorAliases) =>
          /\ output' = output \o <<Echo(cmd)>> \o monitor_text(cmd)
          /\ history # <<>> /\ history[Len(history)] = cmd
          /\ pc' = "idle"
          /\ ~running'
          /\ UNCHANGED <<cwd, history, running, fs, handled, result, wpc>>]_vars

(* C19: the dispatcher leaves output as it was, but for clear, which       *)
(* empties it; a Handled outcome, True or False, then appends the echo     *)
(* "$ <command>" and the result, with running false before and after, so   *)
(* after clear output is exactly the echo and "Cleared output".  No other  *)
(* step makes output shorter.                                              *)
C19_HandledOutput ==
    [][/\ (pc = "dispatching" /\ cmd \notin MonitorAliases) =>
              output' = IF cmd.verb = "clear" THEN <<>> ELSE output
       /\ (pc = "outcome" /\ handled \in {"True", "False"}) =>
              /\ output' = output \o <<Echo(cmd)>> \o result
              /\ ~running /\ ~running'
              /\ pc' = "idle"
              /\ cmd.verb = "clear" => output' = <<Echo(cmd), T("Cleared output")>>
       /\ Len(output') < Len(output) => (pc = "dispatching" /\ cmd.verb = "clear")]_vars

(* clear has wiped the lines of an earlier pwd. *)
C19_Witness ==
    /\ pc = "idle"
    /\ history = <<C("pwd", <<>>), C("clear", <<>>)>>
    /\ output = <<Echo(C("clear", <<>>)), T("Cleared output")>>

(* C20: when the history built-in has run for a submitted command, history *)
(* is not empty, the answer is not "No command history", and the last line *)
(* of the answer is the history command just submitted, which is the last  *)
(* entry of history.                                                       *)
C20_HistoryNeverEmpty ==
    (pc = "outcome" /\ cmd.verb = "history") =>
        /\ history # <<>>
        /\ history[Len(history)] = cmd
        /\ handled = "True"
        /\ result # <<T("No command history")>>
        /\ result # <<>>
        /\ result[Len(result)].cmd = cmd

(* history has answered as the second command of the session. *)
C20_Witness ==
    /\ pc = "outcome"
    /\ cmd.verb = "history"
    /\ Len(history) = 2
    /\ Len(result) = 2
    /\ result[1].cmd.verb # "history"

====
